---- MODULE Spec2Model ----
(***************************************************************************)
(* Simulated annealing demonstration cell of                               *)
(* notebooks/Simulated Annealing.ipynb (lines 285-318), with the           *)
(* rosenbrock cost function of lines 265-266.                              *)
(*                                                                         *)
(* Reals are modelled on the integer grid: the coordinates of x0 are the   *)
(* integers of the interval (2-4, 2] that `2 - np.random.rand(2)*4` draws  *)
(* from, np.random.randn() returns an integer of -MaxNoise..MaxNoise, and  *)
(* np.random.rand() returns u/UDen for u in 0..UDen-1 (0 is the draw 0.0). *)
(* The temperature is the exact rational <<kmax - k, kmax>>.  np.exp is    *)
(* computed in fixed point (ExpScale) and underflows to 0.0 as float64     *)
(* does.                                                                   *)
(***************************************************************************)
EXTENDS Integers, Sequences, FiniteSets

\* ---- bounds of the model ------------------------------------------------
MaxKmax == 3        \* kmax ranges over -MaxNegKmax..MaxKmax
MaxNegKmax == 1     \* (range(kmax) is empty for kmax <= 0)
MaxNoise == 1       \* randn() ranges over -MaxNoise..MaxNoise
UDen == 4           \* rand() ranges over {0/UDen, ..., (UDen-1)/UDen}

\* ---- program constants --------------------------------------------------
X0Hi == 2           \* x0 = 2 - rand(2)*4
X0Span == 4
RosA == 1           \* rosenbrock(x, y, a=1, B=100)
RosB == 100
Dim == 2            \* np.random.rand(2): points are 2-vectors

\* np.exp in fixed point
ExpScale == 10000           \* 1.0
ExpM1 == 3679               \* exp(-1) = 0.36788
ExpTerms == 8               \* terms of the series for the fractional part
ExpUnderflowCenti == 74583  \* np.exp(-z) = 0.0 for z > 745.83 (float64)

\* encodings of "name not bound yet" / "no draw taken"
Unbound == -1
NoDraw == -1

VARIABLES x0, x0_temp, x0_best, f0_temp, f0_best, count, kmax, k,
          x1, f1, T, pc,
          u,          \* value returned by the np.random.rand() of this iteration, or NoDraw
          draws,      \* the calls made on the global np.random stream, in order
          outcome,    \* branch taken by the if/elif/else of the current iteration
          decisions   \* number of if/elif/else decisions made so far

vars == <<x0, x0_temp, x0_best, f0_temp, f0_best, count, kmax, k,
          x1, f1, T, pc, u, draws, outcome, decisions>>

\* ---- pure functions -----------------------------------------------------
rosenbrock(x, y) == (RosA - x) * (RosA - x) + RosB * ((y - x * x) * (y - x * x))

Cost(p) == rosenbrock(p[1], p[2])

\* x0_temp + np.random.randn(): ONE scalar sample, broadcast over the array
Neighbor(p, d) == [i \in 1..Dim |-> p[i] + d]

\* T = (kmax - k) / kmax, as the rational <<numerator, denominator>>
TemperatureOffByOne(kk, km) == <<km - kk - 1, km>>
Temperature(kk, km) == <<km - kk, km>>

\* range(kmax) has a next element after k
LoopContinuesInclusive(kk, km) == kk + 1 <= km
LoopContinuesShort(kk, km) == kk + 2 < km
LoopContinues(kk, km) == kk + 1 < km

\* exp(-i) for a natural i, in units of 1/ExpScale
RECURSIVE ExpNegInt(_)
ExpNegInt(i) == IF i = 0 THEN ExpScale
                ELSE IF i > 12 THEN 0
                ELSE (ExpNegInt(i - 1) * ExpM1) \div ExpScale

\* exp(-fn/zd) for 0 <= fn/zd < 1 by Horner's form of the series, from term n
RECURSIVE ExpNegFrac(_, _, _)
ExpNegFrac(n, fn, zd) ==
    IF n > ExpTerms THEN ExpScale
    ELSE ExpScale - (fn * ExpNegFrac(n + 1, fn, zd)) \div (zd * n)

\* exp(-zn/zd) for zn >= 0, zd > 0, in units of 1/ExpScale
ExpNeg(zn, zd) == (ExpNegInt(zn \div zd) * ExpNegFrac(1, zn % zd, zd)) \div ExpScale

\* np.exp(-(f1 - f0_temp)/T) > np.random.rand(), for f1 >= f0_temp,
\* df = f1 - f0_temp, temp = T, draw = u/UDen
ExpGtDraw(df, temp, draw) ==
    LET zn == df * temp[2]
        zd == temp[1]
    IN  IF zn * 100 > ExpUnderflowCenti * zd THEN FALSE   \* 0.0 > draw
        ELSE IF draw = 0 THEN TRUE                        \* positive > 0.0
        ELSE ExpNeg(zn, zd) * UDen > draw * ExpScale

\* if f1 < f0_temp
BetterOrEqual(fa, fb) == fa <= fb
Better(fa, fb) == fa < fb

\* if f0_temp < f0_best: x0_best = x0_temp; f0_best = f0_temp
BestPointStale(xt, ft, xb, fb) == xb
BestPoint(xt, ft, xb, fb) == IF ft < fb THEN xt ELSE xb

BestCostFollows(ft, fb) == ft
BestCostReversed(ft, fb) == IF ft > fb THEN ft ELSE fb
BestCost(ft, fb) == IF ft < fb THEN ft ELSE fb

\* ---- initial state: lines 285-294 ----------------------------------------
X0Coords == (X0Hi - X0Span + 1)..X0Hi
KmaxValues == (0 - MaxNegKmax)..MaxKmax
NoiseValues == (0 - MaxNoise)..MaxNoise
UValues == 0..(UDen - 1)

Init ==
    /\ x0 \in [1..Dim -> X0Coords]
    /\ kmax \in KmaxValues
    /\ x0_temp = x0
    /\ x0_best = x0
    /\ f0_temp = Cost(x0)
    /\ f0_best = Cost(x0)
    /\ count = 0
    /\ k = Unbound
    /\ x1 = <<>>
    /\ f1 = Unbound
    /\ T = <<>>
    /\ pc = "for"
    /\ u = NoDraw
    /\ draws = <<>>
    /\ outcome = "none"
    /\ decisions = 0

\* ---- the loop ------------------------------------------------------------
\* lines 296-300: next k of range(kmax), candidate, its cost, temperature
ForNext(d) ==
    /\ pc = "for"
    /\ LoopContinues(k, kmax)
    /\ k' = k + 1
    /\ x1' = Neighbor(x0_temp, d)
    /\ f1' = Cost(x1')
    /\ T' = Temperature(k', kmax)
    /\ draws' = Append(draws, "randn")
    /\ u' = NoDraw
    /\ outcome' = "pending"
    /\ pc' = "if"
    /\ UNCHANGED <<x0, x0_temp, x0_best, f0_temp, f0_best, count, kmax, decisions>>

\* line 296: range(kmax) is exhausted; lines 316-318 print the result
ForExit ==
    /\ pc = "for"
    /\ ~LoopContinues(k, kmax)
    /\ pc' = "done"
    /\ UNCHANGED <<x0, x0_temp, x0_best, f0_temp, f0_best, count, kmax, k,
                   x1, f1, T, u, draws, outcome, decisions>>

\* lines 302-304, 312-314: strictly better candidate
AcceptBetterDrawsFirst ==
    /\ pc = "if"
    /\ Better(f1, f0_temp)
    /\ x0_temp' = x1
    /\ f0_temp' = f1
    /\ x0_best' = BestPoint(x1, f1, x0_best, f0_best)
    /\ f0_best' = BestCost(f1, f0_best)
    /\ outcome' = "better"
    /\ decisions' = decisions + 1
    /\ draws' = Append(draws, "rand")
    /\ pc' = "for"
    /\ UNCHANGED <<x0, count, kmax, k, x1, f1, T, u>>

AcceptBetterCounts ==
    /\ pc = "if"
    /\ Better(f1, f0_temp)
    /\ x0_temp' = x1
    /\ f0_temp' = f1
    /\ x0_best' = BestPoint(x1, f1, x0_best, f0_best)
    /\ f0_best' = BestCost(f1, f0_best)
    /\ outcome' = "better"
    /\ decisions' = decisions + 1
    /\ count' = count + 1
    /\ pc' = "for"
    /\ UNCHANGED <<x0, kmax, k, x1, f1, T, u, draws>>

AcceptBetter ==
    /\ pc = "if"
    /\ Better(f1, f0_temp)
    /\ x0_temp' = x1
    /\ f0_temp' = f1
    /\ x0_best' = BestPoint(x1, f1, x0_best, f0_best)
    /\ f0_best' = BestCost(f1, f0_best)
    /\ outcome' = "better"
    /\ decisions' = decisions + 1
    /\ pc' = "for"
    /\ UNCHANGED <<x0, count, kmax, k, x1, f1, T, u, draws>>

\* lines 305-308, 312-314: not better, accepted by the probabilistic test
AcceptProbNoTest(draw) ==
    /\ pc = "if"
    /\ ~Better(f1, f0_temp)
    /\ u' = draw
    /\ draws' = Append(draws, "rand")
    /\ x0_temp' = x1
    /\ f0_temp' = f1
    /\ count' = count + 1
    /\ x0_best' = BestPoint(x1, f1, x0_best, f0_best)
    /\ f0_best' = BestCost(f1, f0_best)
    /\ outcome' = "prob"
    /\ decisions' = decisions + 1
    /\ pc' = "for"
    /\ UNCHANGED <<x0, kmax, k, x1, f1, T>>

AcceptProb(draw) ==
    /\ pc = "if"
    /\ ~Better(f1, f0_temp)
    /\ ExpGtDraw(f1 - f0_temp, T, draw)
    /\ u' = draw
    /\ draws' = Append(draws, "rand")
    /\ x0_temp' = x1
    /\ f0_temp' = f1
    /\ count' = count + 1
    /\ x0_best' = BestPoint(x1, f1, x0_best, f0_best)
    /\ f0_best' = BestCost(f1, f0_best)
    /\ outcome' = "prob"
    /\ decisions' = decisions + 1
    /\ pc' = "for"
    /\ UNCHANGED <<x0, kmax, k, x1, f1, T>>

\* lines 305, 309-310: not better, test failed: continue
RejectCounts(draw) ==
    /\ pc = "if"
    /\ ~Better(f1, f0_temp)
    /\ ~ExpGtDraw(f1 - f0_temp, T, draw)
    /\ u' = draw
    /\ draws' = Append(draws, "rand")
    /\ count' = count + 1
    /\ outcome' = "reject"
    /\ decisions' = decisions + 1
    /\ pc' = "for"
    /\ UNCHANGED <<x0, x0_temp, x0_best, f0_temp, f0_best, kmax, k, x1, f1, T>>

Reject(draw) ==
    /\ pc = "if"
    /\ ~Better(f1, f0_temp)
    /\ ~ExpGtDraw(f1 - f0_temp, T, draw)
    /\ u' = draw
    /\ draws' = Append(draws, "rand")
    /\ outcome' = "reject"
    /\ decisions' = decisions + 1
    /\ pc' = "for"
    /\ UNCHANGED <<x0, x0_temp, x0_best, f0_temp, f0_best, count, kmax, k, x1, f1, T>>

Next ==
    \/ \E d \in NoiseValues : ForNext(d)
    \/ ForExit
    \/ AcceptBetter
    \/ \E draw \in UValues : AcceptProb(draw)
    \/ \E draw \in UValues : Reject(draw)

Spec == Init /\ [][Next]_vars

\* the interpreter runs the cell to its end
FairSpec == Spec /\ WF_vars(Next)

TypeOK ==
    /\ x0 \in [1..Dim -> X0Coords]
    /\ kmax \in KmaxValues
    /\ pc \in {"for", "if", "done"}
    /\ outcome \in {"none", "pending", "better", "prob", "reject"}
    /\ u \in UValues \cup {NoDraw}
    /\ k \in Unbound..MaxKmax
    /\ count \in Nat
    /\ decisions \in Nat

\* ---- helpers for the properties -------------------------------------------
Accepted(o) == o \in {"better", "prob"}

RECURSIVE CountOf(_, _)
CountOf(s, tag) == IF s = <<>> THEN 0
                   ELSE (IF Head(s) = tag THEN 1 ELSE 0) + CountOf(Tail(s), tag)

\* ---- properties -----------------------------------------------------------

\* C1: in every iteration the candidate replaces the current point and cost
\* if and only if f1 < f0_temp, or exp(-(f1 - f0_temp)/T) is strictly greater
\* than the uniform draw of that iteration; in every other case it is
\* rejected and the current point and cost stay.
C1_AcceptIff ==
    [][pc = "if" =>
        LET acc == \/ f1 < f0_temp
                   \/ (u' # NoDraw /\ ExpGtDraw(f1 - f0_temp, T, u'))
        IN  IF acc
            THEN Accepted(outcome') /\ x0_temp' = x1 /\ f0_temp' = f1
            ELSE outcome' = "reject" /\ x0_temp' = x0_temp /\ f0_temp' = f0_temp
      ]_vars

\* C1 witness: in the first iteration a strictly worse candidate was accepted
\* on a non-zero uniform draw.
C1_Witness ==
    outcome = "prob" /\ u > 0 /\ k = 0 /\ f1 > Cost(x0) /\ x0_temp = x1

\* C2: f0_best never increases; the best pair changes only in an iteration
\* whose candidate was accepted with a cost strictly below the previous
\* f0_best, and then becomes the candidate and its cost; so f0_best is never
\* above the cost of the initial point.
C2_BestMonotone ==
    /\ [](f0_best <= Cost(x0))
    /\ [][/\ f0_best' <= f0_best
          /\ (f0_best' # f0_best \/ x0_best' # x0_best)
                => (pc = "if" /\ Accepted(outcome') /\ f1 < f0_best)
          /\ (pc = "if" /\ Accepted(outcome') /\ f1 < f0_best)
                => (x0_best' = x1 /\ f0_best' = f1)
        ]_vars

\* C2 witness: a worse candidate was accepted after the best had improved, so
\* the current cost is above the best cost.
C2_Witness ==
    outcome = "prob" /\ f0_best < Cost(x0) /\ f0_temp > f0_best

\* C3: in every state f0_best is the cost function applied to x0_best.
C3_BestCostIsCostOfBestPoint == f0_best = Cost(x0_best)

\* C3 witness: the best point has moved away from the initial point.
C3_Witness == x0_best # x0 /\ pc = "done"

\* C4 (as claimed): a run with kmax <= 0 never ends normally with a result.
C4_NonPositiveKmaxFails == kmax <= 0 => pc # "done"

\* C4 (amended): a run with kmax <= 0 raises nothing: range(kmax) is empty, no
\* iteration executes, no random number is drawn, and the run ends normally
\* with the initial point as best point and count = 0.
C4_NonPositiveKmaxNoIteration ==
    kmax <= 0 =>
        /\ pc \in {"for", "done"}
        /\ decisions = 0 /\ draws = <<>> /\ k = Unbound
        /\ x0_best = x0 /\ f0_best = Cost(x0) /\ count = 0

\* C4 witness: a run with kmax <= 0 has ended normally.
C4_Witness == kmax <= 0 /\ pc = "done"

\* C5: for kmax >= 1 every temperature that is computed belongs to an index
\* 0 <= k < kmax and T = (kmax - k)/kmax is strictly positive, the last
\* iteration included.
C5_TemperaturePositive ==
    T # <<>> =>
        /\ kmax >= 1 /\ 0 <= k /\ k < kmax
        /\ T[1] * kmax = (kmax - k) * T[2]
        /\ T[1] > 0 /\ T[2] > 0

\* C5 witness: the acceptance test of the last iteration of a run with
\* several iterations.
C5_Witness == pc = "if" /\ kmax >= 2 /\ k = kmax - 1

\* C6: for kmax >= 1 the loop makes one decision per index k = 0..kmax-1,
\* kmax decisions in all, and then terminates; with kmax = 1 the result is
\* the initial point or the single candidate.
C6_ExactlyKmaxDecisions ==
    /\ [](kmax >= 1 => decisions = (IF pc = "if" THEN k ELSE k + 1))
    /\ [](kmax >= 1 /\ pc = "done" => decisions = kmax)
    /\ [](kmax = 1 /\ pc = "done" => x0_best \in {x0, x1})
    /\ <>(pc = "done")

\* C6 witness: a run of several iterations has ended with accepted and
\* rejected candidates behind it.
C6_Witness ==
    pc = "done" /\ kmax >= 2 /\ decisions = kmax /\ outcome = "reject" /\ x0_temp # x0

\* C8: an iteration that rejects its candidate leaves x0_temp, f0_temp,
\* x0_best, f0_best and count unchanged and returns to the head of the loop.
C8_RejectFrame ==
    [][(pc = "if" /\ outcome' = "reject") =>
            /\ UNCHANGED <<x0_temp, f0_temp, x0_best, f0_best, count, k>>
            /\ pc' = "for"
      ]_vars

\* C8 witness: a candidate was rejected after an earlier one had been
\* accepted by the probabilistic test.
C8_Witness == outcome = "reject" /\ count > 0

\* C9 (as claimed): the neighbor step takes one standard-normal sample per
\* coordinate, Dim samples in every iteration.
C9_OneSamplePerCoordinate ==
    pc = "if" => CountOf(draws, "randn") = Dim * (k + 1)

\* C10: every iteration draws the neighbor noise first and afterwards one
\* uniform number if and only if f1 >= f0_temp; a strictly better candidate
\* consumes no uniform draw and no iteration consumes more than one.
C10_DrawOrder ==
    [][/\ (pc = "for" /\ pc' = "if") => draws' = Append(draws, "randn")
       /\ (pc = "for" /\ pc' = "done") => draws' = draws
       /\ pc = "if" =>
            /\ draws' = (IF f1 >= f0_temp THEN Append(draws, "rand") ELSE draws)
            /\ (u' # NoDraw) <=> (f1 >= f0_temp)
      ]_vars

\* C10 witness: an iteration with a uniform draw was followed by an iteration
\* with a strictly better candidate and no uniform draw.
C10_Witness == outcome = "better" /\ draws = <<"randn", "rand", "randn">>

\* C11: in every reachable state f0_best <= f0_temp: however many worse
\* candidates are accepted, the tracked best is never worse than the point the
\* search currently stands on.
C11_BestNotAboveCurrent == f0_best <= f0_temp

\* C11 witness: the run has ended on a point strictly worse than the tracked
\* best, after the best had improved on the initial point.
C11_Witness ==
    pc = "done" /\ count >= 1 /\ f0_best < f0_temp /\ f0_best < Cost(x0)

\* C12: a candidate whose cost equals the current cost is accepted at every
\* temperature of the schedule and for every uniform draw of [0, 1), since
\* exp(0) = 1 is strictly greater than the draw; the move goes through the
\* probabilistic branch (one uniform draw, count incremented) and changes
\* neither x0_best nor f0_best.
C12_PlateauMoveAccepted ==
    /\ []((pc = "if" /\ f1 = f0_temp) =>
            \A draw \in UValues : ExpGtDraw(f1 - f0_temp, T, draw))
    /\ [][(pc = "if" /\ f1 = f0_temp) =>
            /\ outcome' = "prob"
            /\ u' \in UValues
            /\ x0_temp' = x1 /\ f0_temp' = f1
            /\ count' = count + 1
            /\ UNCHANGED <<x0_best, f0_best>>
         ]_vars

\* C12 witness: the last iteration, at the lowest temperature, accepted its
\* candidate on the largest uniform draw; costs are integers here, so a worse
\* candidate has exp(-(f1 - f0_temp)/T) <= exp(-1) < (UDen-1)/UDen and the
\* accepted candidate had the cost of the current point.  Every iteration of
\* the run went through the probabilistic branch and the best pair is still the initial one.
C12_Witness ==
    /\ pc = "done" /\ kmax >= 2 /\ k = kmax - 1
    /\ outcome = "prob" /\ u = UDen - 1
    /\ count = kmax /\ f0_temp = Cost(x0) /\ f0_best = Cost(x0)

\* C13: count is the number of iterations so far in which a candidate that
\* was not strictly better (f1 >= f0_temp) was accepted through the
\* probabilistic test: it starts at 0, grows by one in exactly those
\* iterations, is left alone by a strictly improving acceptance and by a
\* rejection, never decreases and never exceeds the number of iterations
\* executed.
C13_CountTracksProbAccepts ==
    /\ [](decisions = 0 => count = 0)
    /\ [](0 <= count /\ count <= decisions /\ count <= CountOf(draws, "rand"))
    /\ [][LET viaTest == /\ pc = "if"
                         /\ f1 >= f0_temp
                         /\ u' # NoDraw
                         /\ ExpGtDraw(f1 - f0_temp, T, u')
                         /\ x0_temp' = x1
          IN  /\ count' = count + (IF viaTest THEN 1 ELSE 0)
              /\ count' >= count
              /\ (outcome' = "prob" /\ pc = "if") <=> viaTest
        ]_vars

\* C13 witness: a run of three iterations with one acceptance through the
\* probabilistic test, one strictly improving acceptance (the best improved)
\* and a final rejection has ended with count = 1.
C13_Witness ==
    /\ pc = "done" /\ decisions = 3 /\ count = 1
    /\ outcome = "reject" /\ f0_best < Cost(x0)
====
